---- MODULE Spec2Model ----
(***************************************************************************)
(* Lifecycle supervisor of open-webui's helper scripts.                    *)
(*                                                                         *)
(*   ollama_setup.py : stop_existing_ollama, kill_process_on_port,         *)
(*                     is_port_free, wait_for_server, start_ollama,        *)
(*                     run_ollama_commands, main                           *)
(*   webui_setup.py  : wait_for_backend, ngrok_watchdog,                   *)
(*                     create_ngrok_tunnel, main                           *)
(*                                                                         *)
(* Each script is one sequential asyncio task; pc is the position of the   *)
(* running script.  Init chooses which of the two scripts is run.  Every   *)
(* external call (subprocess, socket, HTTP, pyngrok, file) is a            *)
(* nondeterministic choice over the outcomes the call can produce.         *)
(***************************************************************************)
EXTENDS Integers, Sequences, FiniteSets, TLC

(***************************************************************************)
(* Bounds of the model.                                                    *)
(***************************************************************************)
\* number of distinct processes that may hold a socket on port 11434
MaxPids == 3
\* longest time (s) a single answered requests.get of wait_for_backend takes
MaxProbeTime == 2
\* number of distinct public URLs the tunnel provider hands out
MaxUrls == 2
\* number of tunnels the provider establishes during one run
MaxTunnels == 3
\* number of check cycles one ngrok_watchdog invocation may pass healthy
MaxCycles == 2

(***************************************************************************)
(* Program constants.                                                      *)
(***************************************************************************)
\* wait_for_server(port, timeout=30)
DefaultTimeout == 30
\* wait_for_backend(url, timeout=30)
BackendTimeout == 30
\* max_retries = 5
max_retries == 5
\* retry_delay = 5
retry_delay == 5
\* await asyncio.sleep(2) in kill_process_on_port
KillCooldown == 2
\* await asyncio.sleep(15) in ngrok_watchdog
WatchdogInterval == 15
\* number of entries of run_ollama_commands' command list
NumCommands == 5

PIDS == 1..MaxPids

\* outcomes of one HTTP GET: status 200, another status, an exception
Responses == {"200", "503", "err"}

UrlNames == <<"https://a.ngrok.io", "https://b.ngrok.io", "https://c.ngrok.io",
              "https://d.ngrok.io", "https://e.ngrok.io">>
URLS == {UrlNames[i] : i \in 1..MaxUrls}
None == "None"

\* values os.getenv('NGROK_AUTHTOKEN') can give: None, '', a token
Tokens == {"None", "", "tok"}

\* contents of .env before the run, as sequences of text pieces
EnvFiles == { <<>>,
              <<"A=1">>,
              <<"A=1", "\n">>,
              <<"NGROK_URL=", "old", "\n", "A=1", "\n">>,
              <<"A=1", "\n", "NGROK_URL=", "old", "\n", "B=2", "\n">> }

VARIABLES
    pc,            \* position of the running script
    \* ---- ollama_setup.py
    listeners,     \* processes holding a socket on port 11434
    pids,          \* kill_process_on_port: the list lsof printed
    killIdx,       \* kill_process_on_port: index of the for loop over pids
    tried,         \* pids os.kill was called for
    signalled,     \* pids os.kill delivered SIGKILL to
    cooldowns,     \* seconds slept by kill_process_on_port
    kpCalls,       \* calls of kill_process_on_port
    kpReturned,    \* kill_process_on_port has returned
    checks,        \* results of the is_port_free calls of start_ollama, in order
    spawned,       \* `ollama serve` processes spawned
    wsI,           \* wait_for_server: loop index of range(timeout)
    wsProbes,      \* wait_for_server: GETs issued
    wsSleeps,      \* wait_for_server: 1 s sleeps done
    wsFirst200,    \* wait_for_server: number of the first probe answered 200 (0: none)
    wsSeen,        \* wait_for_server: the not-ready outcomes seen
    started,       \* main: value returned by start_ollama ("none" before it returns)
    cmdIdx,        \* run_ollama_commands: index in the command list
    cmdLog,        \* run_ollama_commands: commands whose start was attempted, in order
    osteps,        \* main: the steps of the sequence done so far, in order
    \* ---- webui_setup.py
    elapsed,       \* wait_for_backend: time.time() - start, capped at timeout
    wbProbes,      \* wait_for_backend: GETs issued
    wbSaw200,      \* wait_for_backend: a probe was answered 200
    backend_ready, \* main: value returned by wait_for_backend ("none" before)
    token,         \* os.getenv('NGROK_AUTHTOKEN')
    cnCaller,      \* call site of the running create_ngrok_tunnel
    attempt,       \* create_ngrok_tunnel: loop index of range(max_retries)
    cnAttempts,    \* create_ngrok_tunnel: ngrok.connect calls of this call
    cnSleeps,      \* create_ngrok_tunnel: seconds slept by this call
    cnAuthSet,     \* create_ngrok_tunnel: ngrok.set_auth_token was called
    cnFirstOk,     \* create_ngrok_tunnel: number of the first successful connect (0: none)
    cnFirstUrl,    \* create_ngrok_tunnel: public URL that connect produced
    tunnel,        \* main: value returned by create_ngrok_tunnel
    openTunnels,   \* public URLs of the tunnels open at the provider
    established,   \* tunnels established so far
    public_url,    \* main: public_url
    envExists,     \* .env exists
    envFile,       \* .env content
    envOrig,       \* .env content before the run
    wdUrl,         \* ngrok_watchdog: its argument
    wdCycle,       \* ngrok_watchdog: number of the running check cycle
    wdSleeps,      \* ngrok_watchdog: seconds slept by this invocation
    wdObserved,    \* ngrok_watchdog: failure observed by this invocation
    wdObsCycle,    \* ngrok_watchdog: cycle of that observation
    wdResult       \* value returned by ngrok_watchdog ("none" before)

oVars == <<listeners, pids, killIdx, tried, signalled, cooldowns, kpCalls,
           kpReturned, checks, spawned, wsI, wsProbes, wsSleeps, wsFirst200,
           wsSeen, started, cmdIdx, cmdLog, osteps>>
kpVars == <<pids, killIdx, tried, signalled, cooldowns, kpCalls, kpReturned>>
wsVars == <<wsI, wsProbes, wsSleeps, wsFirst200, wsSeen>>
rcVars == <<cmdIdx, cmdLog>>
wbVars == <<elapsed, wbProbes, wbSaw200>>
cnVars == <<attempt, cnAttempts, cnSleeps, cnAuthSet, cnFirstOk, cnFirstUrl>>
wdVars == <<wdUrl, wdCycle, wdSleeps, wdObserved, wdObsCycle, wdResult>>
envVars == <<envExists, envFile, envOrig>>
wVars == <<wbVars, backend_ready, token, cnCaller, cnVars, tunnel, openTunnels,
           established, public_url, envVars, wdVars>>
vars == <<pc, oVars, wVars>>

Min(a, b) == IF a < b THEN a ELSE b

\* all orderings (without repetition) of the elements of S
RECURSIVE Orderings(_)
Orderings(S) ==
    IF S = {} THEN {<<>>}
    ELSE UNION {{<<x>> \o t : t \in Orderings(S \ {x})} : x \in S}

Range(s) == {s[i] : i \in 1..Len(s)}

(***************************************************************************)
(* Initial state: the script about to run its main().                      *)
(***************************************************************************)
Init ==
    /\ pc \in {"se_isactive", "wb_loop"}
    /\ listeners \in (IF pc = "se_isactive" THEN SUBSET PIDS ELSE {{}})
    /\ pids = <<>>
    /\ killIdx = 0
    /\ tried = {}
    /\ signalled = {}
    /\ cooldowns = 0
    /\ kpCalls = 0
    /\ kpReturned = FALSE
    /\ checks = <<>>
    /\ spawned = 0
    /\ wsI = 0
    /\ wsProbes = 0
    /\ wsSleeps = 0
    /\ wsFirst200 = 0
    /\ wsSeen = {}
    /\ started = "none"
    /\ cmdIdx = 0
    /\ cmdLog = <<>>
    /\ osteps = <<>>
    /\ elapsed = 0
    /\ wbProbes = 0
    /\ wbSaw200 = FALSE
    /\ backend_ready = "none"
    /\ token \in (IF pc = "wb_loop" THEN Tokens ELSE {"None"})
    /\ cnCaller = "none"
    /\ attempt = 0
    /\ cnAttempts = 0
    /\ cnSleeps = 0
    /\ cnAuthSet = FALSE
    /\ cnFirstOk = 0
    /\ cnFirstUrl = None
    /\ tunnel = None
    /\ openTunnels = {}
    /\ established = 0
    /\ public_url = None
    /\ envExists \in (IF pc = "wb_loop" THEN BOOLEAN ELSE {TRUE})
    /\ envFile \in (IF pc = "wb_loop" /\ envExists THEN EnvFiles ELSE {<<>>})
    /\ envOrig = envFile
    /\ wdUrl = None
    /\ wdCycle = 0
    /\ wdSleeps = 0
    /\ wdObserved = "none"
    /\ wdObsCycle = 0
    /\ wdResult = "none"

(***************************************************************************)
(* ollama_setup.py : stop_existing_ollama                                  *)
(***************************************************************************)
\* systemctl is-active --quiet ollama; status 0 means the service is active.
\* A failure to run systemctl is caught and leads to the pkill step.
SeIsActive ==
    /\ pc = "se_isactive"
    /\ \E r \in {"raise", "active", "inactive"} :
          pc' = IF r = "active" THEN "se_stop" ELSE "se_pkill"
    /\ UNCHANGED <<oVars, wVars>>

\* sudo systemctl stop ollama
SeStop ==
    /\ pc = "se_stop"
    /\ \E r \in {"raise", "ok"} :
          pc' = IF r = "ok" THEN "se_disable" ELSE "se_pkill"
    /\ UNCHANGED <<oVars, wVars>>

\* sudo systemctl disable ollama
SeDisable ==
    /\ pc = "se_disable"
    /\ pc' = "se_pkill"
    /\ UNCHANGED <<oVars, wVars>>

\* pkill -f 'ollama serve': ends any subset of the processes on the port
\* (those that are ollama serve); a failure to run pkill is caught.
SePkill ==
    /\ pc = "se_pkill"
    /\ \E r \in {"raise", "ok"} :
          listeners' \in (IF r = "ok" THEN SUBSET listeners ELSE {listeners})
    /\ pc' = "se_sleep"
    /\ UNCHANGED <<kpVars, checks, spawned, wsVars, started, rcVars, osteps, wVars>>

\* await asyncio.sleep(2); main then calls start_ollama
SeSleep ==
    /\ pc = "se_sleep"
    /\ pc' = "so_check1"
    /\ osteps' = Append(osteps, "cleanup")
    /\ UNCHANGED <<listeners, kpVars, checks, spawned, wsVars, started, rcVars, wVars>>

(***************************************************************************)
(* ollama_setup.py : is_port_free, kill_process_on_port                    *)
(***************************************************************************)
\* connect_ex(('localhost', port)) != 0: nobody accepts a connection
is_port_free(ls) == ls = {}

\* lsof -t -i:port lists (in any order) the processes it can see on the port;
\* it lists none when it sees none, and running it may raise.
KpLsof ==
    /\ pc = "kp_lsof"
    /\ \E r \in {"raise", "ok"} :
         \E S \in SUBSET listeners :
           \E out \in Orderings(S) :
             IF r = "ok" /\ out # <<>>
             THEN /\ pids' = out
                  /\ killIdx' = 1
                  /\ pc' = "kp_kill"
                  /\ UNCHANGED kpReturned
             ELSE /\ UNCHANGED <<pids, killIdx>>
                  /\ kpReturned' = TRUE
                  /\ pc' = "so_check2"
    /\ UNCHANGED <<listeners, tried, signalled, cooldowns, kpCalls, checks,
                   spawned, wsVars, started, rcVars, osteps, wVars>>

\* faulty variant of KillRaised: no except clause, the exception escapes
KillRaised_Escapes == "crashed"

\* position after os.kill(pid) raised inside the for loop: the except clause
\* of kill_process_on_port takes over and the function returns
KillRaised == "so_check2"

\* position after os.kill(pid) succeeded for pids[i]
KillNext(i, n) == IF i < n THEN "kp_kill" ELSE "kp_sleep"

\* one iteration of `for pid in pids: os.kill(int(pid), SIGKILL)`
KpKill ==
    /\ pc = "kp_kill"
    /\ killIdx \in 1..Len(pids)
    /\ tried' = tried \cup {pids[killIdx]}
    /\ \E r \in {"raise", "ok"} :
         IF r = "ok"
         THEN /\ signalled' = signalled \cup {pids[killIdx]}
              /\ pc' = KillNext(killIdx, Len(pids))
              /\ killIdx' = killIdx + 1
              /\ UNCHANGED kpReturned
         ELSE /\ pc' = KillRaised
              /\ kpReturned' = (pc' = "so_check2")
              /\ UNCHANGED <<signalled, killIdx>>
    /\ UNCHANGED <<listeners, pids, cooldowns, kpCalls, checks, spawned, wsVars,
                   started, rcVars, osteps, wVars>>

\* await asyncio.sleep(2) after the for loop
KpSleep ==
    /\ pc = "kp_sleep"
    /\ cooldowns' = cooldowns + KillCooldown
    /\ kpReturned' = TRUE
    /\ pc' = "so_check2"
    /\ UNCHANGED <<listeners, pids, killIdx, tried, signalled, kpCalls, checks,
                   spawned, wsVars, started, rcVars, osteps, wVars>>

\* a process that received SIGKILL ends and releases its socket
Die ==
    /\ \E p \in signalled \cap listeners : listeners' = listeners \ {p}
    /\ UNCHANGED <<pc, kpVars, checks, spawned, wsVars, started, rcVars, osteps, wVars>>

(***************************************************************************)
(* ollama_setup.py : start_ollama                                          *)
(***************************************************************************)
\* faulty variant of AfterCheck1: the port is remediated whatever the check says
AfterCheck1_Always(free) == "kp_lsof"

\* if not await is_port_free(11434): await kill_process_on_port(11434)
AfterCheck1(free) == IF free THEN "so_check2" ELSE "kp_lsof"

SoCheck1 ==
    /\ pc = "so_check1"
    /\ checks' = Append(checks, is_port_free(listeners))
    /\ pc' = AfterCheck1(is_port_free(listeners))
    /\ kpCalls' = IF pc' = "kp_lsof" THEN kpCalls + 1 ELSE kpCalls
    /\ osteps' = IF pc' = "kp_lsof" THEN osteps \o <<"check", "remediate">>
                  ELSE Append(osteps, "check")
    /\ UNCHANGED <<listeners, pids, killIdx, tried, signalled, cooldowns,
                   kpReturned, spawned, wsVars, started, rcVars, wVars>>

\* faulty variant of AfterCheck2: the result of the second check is ignored
AfterCheck2_Ignored(free) == "so_spawn"

\* if not await is_port_free(11434): return False
AfterCheck2(free) == IF free THEN "so_spawn" ELSE "so_ret"

SoCheck2 ==
    /\ pc = "so_check2"
    /\ checks' = Append(checks, is_port_free(listeners))
    /\ pc' = AfterCheck2(is_port_free(listeners))
    /\ started' = IF pc' = "so_ret" THEN "False" ELSE started
    /\ osteps' = Append(osteps, "check")
    /\ UNCHANGED <<listeners, kpVars, spawned, wsVars, rcVars, wVars>>

\* create_subprocess_shell("nohup ollama serve ... &"); communicate();
\* then wait_for_server(11434) is called
SoSpawn ==
    /\ pc = "so_spawn"
    /\ spawned' = spawned + 1
    /\ pc' = "ws_loop"
    /\ osteps' = Append(osteps, "spawn")
    /\ UNCHANGED <<listeners, kpVars, checks, wsVars, started, rcVars, wVars>>

(***************************************************************************)
(* ollama_setup.py : wait_for_server(11434), timeout = 30                  *)
(***************************************************************************)
\* faulty variant of WsMore: one iteration too many
WsMore_OffByOne(i) == i <= DefaultTimeout

\* for _ in range(timeout)
WsMore(i) == i < DefaultTimeout

\* faulty variant of ServerReady: any HTTP response counts as ready
ServerReady_AnyStatus(resp) == resp # "err"

\* if response.status == 200 (an exception is the outcome "err")
ServerReady(resp) == resp = "200"

\* one iteration up to the sleep: GET, return True on 200
WsProbe ==
    /\ pc = "ws_loop"
    /\ WsMore(wsI)
    /\ wsProbes' = wsProbes + 1
    /\ \E resp \in Responses :
         IF ServerReady(resp)
         THEN /\ started' = "True"
              /\ pc' = "so_ret"
              /\ osteps' = Append(osteps, "ready")
              /\ wsFirst200' = IF resp = "200" /\ wsFirst200 = 0
                                THEN wsProbes' ELSE wsFirst200
              /\ UNCHANGED wsSeen
         ELSE /\ pc' = "ws_sleep"
              /\ wsSeen' = wsSeen \cup {resp}
              /\ wsFirst200' = IF resp = "200" /\ wsFirst200 = 0
                                THEN wsProbes' ELSE wsFirst200
              /\ UNCHANGED <<started, osteps>>
    /\ UNCHANGED <<listeners, kpVars, checks, spawned, wsI, wsSleeps, rcVars, wVars>>

\* await asyncio.sleep(1), then the next iteration
WsSleep ==
    /\ pc = "ws_sleep"
    /\ wsSleeps' = wsSleeps + 1
    /\ wsI' = wsI + 1
    /\ pc' = "ws_loop"
    /\ UNCHANGED <<listeners, kpVars, checks, spawned, wsProbes, wsFirst200,
                   wsSeen, started, rcVars, osteps, wVars>>

\* range(timeout) is exhausted: return False
WsExhausted ==
    /\ pc = "ws_loop"
    /\ ~WsMore(wsI)
    /\ started' = "False"
    /\ pc' = "so_ret"
    /\ osteps' = Append(osteps, "not_ready")
    /\ UNCHANGED <<listeners, kpVars, checks, spawned, wsVars, rcVars, wVars>>

(***************************************************************************)
(* ollama_setup.py : main, run_ollama_commands                             *)
(***************************************************************************)
\* faulty variant of OMainBranch: the commands are run whatever start_ollama
\* returned
OMainBranch_Unconditional ==
    /\ pc = "so_ret"
    /\ pc' = "rc_exec"
    /\ cmdIdx' = 1
    /\ UNCHANGED <<listeners, kpVars, checks, spawned, wsVars, started, cmdLog,
                   osteps, wVars>>

\* if started: await run_ollama_commands()
OMainBranch ==
    /\ pc = "so_ret"
    /\ IF started = "True"
       THEN /\ pc' = "rc_exec"
            /\ cmdIdx' = 1
       ELSE /\ pc' = "o_done"
            /\ UNCHANGED cmdIdx
    /\ UNCHANGED <<listeners, kpVars, checks, spawned, wsVars, started, cmdLog,
                   osteps, wVars>>

\* one iteration of `for cmd in commands`: create_subprocess_exec and
\* communicate; a failure to start the command raises and is not caught
RcExec ==
    /\ pc = "rc_exec"
    /\ cmdIdx \in 1..NumCommands
    /\ \E r \in {"exit0", "nonzero", "raise"} :
         IF r = "raise"
         THEN /\ pc' = "crashed"
              /\ UNCHANGED cmdIdx
         ELSE /\ cmdIdx' = cmdIdx + 1
              /\ pc' = IF cmdIdx < NumCommands THEN "rc_exec" ELSE "o_done"
    /\ cmdLog' = Append(cmdLog, cmdIdx)
    /\ osteps' = Append(osteps, "command")
    /\ UNCHANGED <<listeners, kpVars, checks, spawned, wsVars, started, wVars>>

OllamaNext ==
    \/ SeIsActive \/ SeStop \/ SeDisable \/ SePkill \/ SeSleep
    \/ SoCheck1 \/ KpLsof \/ KpKill \/ KpSleep \/ Die
    \/ SoCheck2 \/ SoSpawn
    \/ WsProbe \/ WsSleep \/ WsExhausted
    \/ OMainBranch \/ RcExec

(***************************************************************************)
(* webui_setup.py : wait_for_backend("http://localhost:8080"), timeout=30  *)
(***************************************************************************)
\* while time.time() - start < timeout
WbMore(t) == t < BackendTimeout

\* if response.status_code == 200
BackendUp(resp) == resp = "200"

\* one iteration up to the sleep, for a GET that ends after d seconds with
\* a response or with a RequestException ("err")
WbProbe ==
    /\ pc = "wb_loop"
    /\ WbMore(elapsed)
    /\ wbProbes' = wbProbes + 1
    /\ \E resp \in Responses, d \in 0..MaxProbeTime :
         /\ elapsed' = Min(elapsed + d, BackendTimeout)
         /\ wbSaw200' = (wbSaw200 \/ resp = "200")
         /\ IF BackendUp(resp)
            THEN /\ backend_ready' = "True"
                 /\ pc' = "wb_ret"
            ELSE /\ pc' = "wb_sleep"
                 /\ UNCHANGED backend_ready
    /\ UNCHANGED <<oVars, token, cnCaller, cnVars, tunnel, openTunnels,
                   established, public_url, envVars, wdVars>>

\* requests.get(url) is called without a timeout: against an endpoint that
\* accepts the connection and never answers, the call does not return
WbProbeBlocks ==
    /\ pc = "wb_loop"
    /\ WbMore(elapsed)
    /\ wbProbes' = wbProbes + 1
    /\ pc' = "wb_blocked"
    /\ UNCHANGED <<oVars, elapsed, wbSaw200, backend_ready, token, cnCaller,
                   cnVars, tunnel, openTunnels, established, public_url,
                   envVars, wdVars>>

\* await asyncio.sleep(1)
WbSleep ==
    /\ pc = "wb_sleep"
    /\ elapsed' = Min(elapsed + 1, BackendTimeout)
    /\ pc' = "wb_loop"
    /\ UNCHANGED <<oVars, wbProbes, wbSaw200, backend_ready, token, cnCaller,
                   cnVars, tunnel, openTunnels, established, public_url,
                   envVars, wdVars>>

\* the while condition is false: return False
WbTimeout ==
    /\ pc = "wb_loop"
    /\ ~WbMore(elapsed)
    /\ backend_ready' = "False"
    /\ pc' = "wb_ret"
    /\ UNCHANGED <<oVars, wbVars, token, cnCaller, cnVars, tunnel, openTunnels,
                   established, public_url, envVars, wdVars>>

(***************************************************************************)
(* webui_setup.py : create_ngrok_tunnel                                    *)
(***************************************************************************)
\* the state of a create_ngrok_tunnel call that has just been entered
CnCall(site) ==
    /\ cnCaller' = site
    /\ attempt' = 0
    /\ cnAttempts' = 0
    /\ cnSleeps' = 0
    /\ cnAuthSet' = FALSE
    /\ cnFirstOk' = 0
    /\ cnFirstUrl' = None

\* faulty variant of TokenMissing: `if ngrok_token is None`
TokenMissing_NoneOnly(t) == t = "None"

\* if not ngrok_token
TokenMissing(t) == t \in {"None", ""}

\* ngrok_token = os.getenv(...); if not ngrok_token: return None
CnToken ==
    /\ pc = "cn_token"
    /\ IF TokenMissing(token)
       THEN /\ tunnel' = None
            /\ pc' = "cn_ret"
       ELSE /\ pc' = "cn_setauth"
            /\ UNCHANGED tunnel
    /\ UNCHANGED <<oVars, wbVars, backend_ready, token, cnCaller, cnVars,
                   openTunnels, established, public_url, envVars, wdVars>>

\* ngrok.set_auth_token(ngrok_token), outside any try: a failure escapes
CnSetAuth ==
    /\ pc = "cn_setauth"
    /\ \E r \in {"raise", "ok"} :
         IF r = "ok"
         THEN /\ cnAuthSet' = TRUE
              /\ pc' = "cn_connect"
         ELSE /\ pc' = "crashed"
              /\ UNCHANGED cnAuthSet
    /\ UNCHANGED <<oVars, wbVars, backend_ready, token, cnCaller, attempt,
                   cnAttempts, cnSleeps, cnFirstOk, cnFirstUrl, tunnel,
                   openTunnels, established, public_url, envVars, wdVars>>

\* faulty variant of CnMore: one iteration too many
CnMore_OffByOne(a) == a <= max_retries

\* for attempt in range(max_retries)
CnMore(a) == a < max_retries

\* position after ngrok.connect raised: the except clause sleeps retry_delay
ConnectFailed == "cn_sleep"

\* faulty variant of ConnectDone: the loop goes on after a success
ConnectDone_NoReturn == "cn_sleep"

\* position after ngrok.connect returned a tunnel: return tunnel
ConnectDone == "cn_ret"

\* one iteration up to the sleep: ngrok.connect(8080, "http", ...)
CnConnect ==
    /\ pc = "cn_connect"
    /\ CnMore(attempt)
    /\ cnAttempts' = cnAttempts + 1
    /\ \/ /\ established < MaxTunnels
          /\ \E u \in URLS \ openTunnels :
               /\ openTunnels' = openTunnels \cup {u}
               /\ tunnel' = IF ConnectDone = "cn_ret" THEN u ELSE tunnel
               /\ cnFirstUrl' = IF cnFirstOk = 0 THEN u ELSE cnFirstUrl
          /\ established' = established + 1
          /\ cnFirstOk' = IF cnFirstOk = 0 THEN cnAttempts' ELSE cnFirstOk
          /\ pc' = ConnectDone
       \/ /\ pc' = ConnectFailed
          /\ UNCHANGED <<openTunnels, tunnel, established, cnFirstOk, cnFirstUrl>>
    /\ UNCHANGED <<oVars, wbVars, backend_ready, token, cnCaller, attempt,
                   cnSleeps, cnAuthSet, public_url, envVars, wdVars>>

\* await asyncio.sleep(retry_delay), then the next iteration
CnSleep ==
    /\ pc = "cn_sleep"
    /\ cnSleeps' = cnSleeps + retry_delay
    /\ attempt' = attempt + 1
    /\ pc' = "cn_connect"
    /\ UNCHANGED <<oVars, wbVars, backend_ready, token, cnCaller, cnAttempts,
                   cnAuthSet, cnFirstOk, cnFirstUrl, tunnel, openTunnels,
                   established, public_url, envVars, wdVars>>

\* range(max_retries) is exhausted: return None
CnExhausted ==
    /\ pc = "cn_connect"
    /\ ~CnMore(attempt)
    /\ tunnel' = None
    /\ pc' = "cn_ret"
    /\ UNCHANGED <<oVars, wbVars, backend_ready, token, cnCaller, cnVars,
                   openTunnels, established, public_url, envVars, wdVars>>

(***************************************************************************)
(* webui_setup.py : ngrok_watchdog(public_url)                             *)
(***************************************************************************)
\* the state of an ngrok_watchdog call that has just been entered
WdCall(url) ==
    /\ wdUrl' = url
    /\ wdCycle' = 1
    /\ wdSleeps' = 0
    /\ wdObserved' = "none"
    /\ wdObsCycle' = 0
    /\ wdResult' = "none"

\* position after the check of the provider's tunnel list: an exception
\* and `public_url not in active_urls` both lead to return False
AfterList(r, url, active) ==
    IF r = "err" THEN "wd_ret"
    ELSE IF url \notin active THEN "wd_ret"
    ELSE "wd_ping"

\* faulty variant of AfterPing: the status of the response is not looked at
AfterPing_AnyStatus(resp) == IF resp = "err" THEN "wd_ret" ELSE "wd_sleep"

\* faulty variant of AfterPing: a healthy check ends the watchdog
AfterPing_HealthyExit(resp) == "wd_ret"

\* position after the liveness probe: an exception and
\* `response.status_code != 200` both lead to return False
AfterPing(resp) ==
    IF resp = "err" THEN "wd_ret"
    ELSE IF resp # "200" THEN "wd_ret"
    ELSE "wd_sleep"

\* value ngrok_watchdog returns (it has return False only)
WatchdogReturn == "False"

\* GET http://127.0.0.1:4040/api/tunnels and the membership test;
\* wdObserved records what the provider answered
WdList ==
    /\ pc = "wd_list"
    /\ \E r \in {"err", "ok"} :
         LET obs == IF r = "err" THEN "error"
                    ELSE IF wdUrl \notin openTunnels THEN "missing"
                    ELSE "none"
         IN /\ pc' = AfterList(r, wdUrl, openTunnels)
            /\ wdObserved' = obs
            /\ wdObsCycle' = IF obs = "none" THEN wdObsCycle ELSE wdCycle
            /\ wdResult' = IF pc' = "wd_ret" THEN WatchdogReturn ELSE wdResult
    /\ UNCHANGED <<oVars, wbVars, backend_ready, token, cnCaller, cnVars,
                   tunnel, openTunnels, established, public_url, envVars,
                   wdUrl, wdCycle, wdSleeps>>

\* GET public_url and the status test;
\* wdObserved records what the public URL answered
WdPing ==
    /\ pc = "wd_ping"
    /\ \E resp \in Responses :
         LET obs == IF resp = "err" THEN "error"
                    ELSE IF resp = "200" THEN "none"
                    ELSE "status"
         IN /\ pc' = AfterPing(resp)
            /\ pc' = "wd_sleep" => wdCycle <= MaxCycles
            /\ wdObserved' = obs
            /\ wdObsCycle' = IF obs = "none" THEN wdObsCycle ELSE wdCycle
            /\ wdResult' = IF pc' = "wd_ret" THEN WatchdogReturn ELSE wdResult
    /\ UNCHANGED <<oVars, wbVars, backend_ready, token, cnCaller, cnVars,
                   tunnel, openTunnels, established, public_url, envVars,
                   wdUrl, wdCycle, wdSleeps>>

\* await asyncio.sleep(15), then the next check cycle
WdSleep ==
    /\ pc = "wd_sleep"
    /\ wdSleeps' = wdSleeps + WatchdogInterval
    /\ wdCycle' = wdCycle + 1
    /\ pc' = "wd_list"
    /\ UNCHANGED <<oVars, wbVars, backend_ready, token, cnCaller, cnVars,
                   tunnel, openTunnels, established, public_url, envVars,
                   wdUrl, wdObserved, wdObsCycle, wdResult>>

\* a tunnel is closed on the provider's side
TunnelDrop ==
    /\ \E u \in openTunnels : openTunnels' = openTunnels \ {u}
    /\ UNCHANGED <<pc, oVars, wbVars, backend_ready, token, cnCaller, cnVars,
                   tunnel, established, public_url, envVars, wdVars>>

(***************************************************************************)
(* webui_setup.py : the .env update                                        *)
(***************************************************************************)
\* file.readlines(): the pieces up to and including each "\n"
RECURSIVE ReadLines(_)
ReadLines(f) ==
    IF f = <<>> THEN <<>>
    ELSE LET nl == {i \in 1..Len(f) : f[i] = "\n"}
             cut == IF nl = {} THEN Len(f)
                    ELSE CHOOSE i \in nl : \A j \in nl : i <= j
         IN <<SubSeq(f, 1, cut)>> \o ReadLines(SubSeq(f, cut + 1, Len(f)))

\* line.startswith("NGROK_URL=")
StartsWithKey(line) == Len(line) > 0 /\ line[1] = "NGROK_URL="

\* [line for line in lines if not line.startswith("NGROK_URL=")]
DropKey(lines) == SelectSeq(lines, LAMBDA l : ~StartsWithKey(l))

\* file.writelines(lines)
RECURSIVE WriteLines(_)
WriteLines(lines) ==
    IF lines = <<>> THEN <<>> ELSE Head(lines) \o WriteLines(Tail(lines))

\* read, drop the NGROK_URL lines, append the new one, write
UpdateEnv(f, url) ==
    WriteLines(Append(DropKey(ReadLines(f)), <<"NGROK_URL=", url, "\n">>))

(***************************************************************************)
(* webui_setup.py : main                                                   *)
(***************************************************************************)
\* faulty variant of WMainBackend: the tunnel is created whatever
\* wait_for_backend returned
WMainBackend_Unconditional ==
    /\ pc = "wb_ret"
    /\ pc' = "cn_token"
    /\ CnCall("first")
    /\ elapsed' = 0
    /\ wbProbes' = 0
    /\ wbSaw200' = FALSE
    /\ UNCHANGED <<oVars, backend_ready, token, tunnel, openTunnels,
                   established, public_url, envVars, wdVars>>

\* if not backend_ready: return; else tunnel = await create_ngrok_tunnel()
WMainBackend ==
    /\ pc = "wb_ret"
    /\ IF backend_ready = "True"
       THEN /\ pc' = "cn_token"
            /\ CnCall("first")
       ELSE /\ pc' = "w_done"
            /\ UNCHANGED <<cnCaller, cnVars>>
    /\ elapsed' = 0
    /\ wbProbes' = 0
    /\ wbSaw200' = FALSE
    /\ UNCHANGED <<oVars, backend_ready, token, tunnel, openTunnels,
                   established, public_url, envVars, wdVars>>

\* if not tunnel: return; public_url = tunnel.public_url
WMainTunnel ==
    /\ pc = "cn_ret"
    /\ cnCaller = "first"
    /\ IF tunnel = None
       THEN /\ pc' = "w_done"
            /\ UNCHANGED public_url
       ELSE /\ pc' = "w_env1"
            /\ public_url' = tunnel
    /\ CnCall("none")
    /\ UNCHANGED <<oVars, wbVars, backend_ready, token, tunnel, openTunnels,
                   established, envVars, wdVars>>

\* "Update .env": open(env_path, "r") raises when the file does not exist
WEnv1 ==
    /\ pc = "w_env1"
    /\ IF envExists
       THEN /\ envFile' = UpdateEnv(envFile, public_url)
            /\ pc' = "w_curl"
       ELSE /\ pc' = "crashed"
            /\ UNCHANGED envFile
    /\ UNCHANGED <<oVars, wbVars, backend_ready, token, cnCaller, cnVars,
                   tunnel, openTunnels, established, public_url, envExists,
                   envOrig,
                   wdVars>>

\* the three os.system("curl ... || true") calls
WCurl ==
    /\ pc = "w_curl"
    /\ pc' = "w_env2"
    /\ UNCHANGED <<oVars, wVars>>

\* "Update .env with new URL", then the first ngrok_watchdog(public_url)
WEnv2 ==
    /\ pc = "w_env2"
    /\ envFile' = UpdateEnv(envFile, public_url)
    /\ pc' = "wd_list"
    /\ WdCall(public_url)
    /\ UNCHANGED <<oVars, wbVars, backend_ready, token, cnCaller, cnVars,
                   tunnel, openTunnels, established, public_url, envExists,
                   envOrig>>

\* if not tunnel_ok: ngrok.disconnect(public_url) (a failure is caught),
\* then tunnel = await create_ngrok_tunnel()
WReconnect ==
    /\ pc = "wd_ret"
    /\ IF wdResult = "False"
       THEN /\ \E r \in {"raise", "ok"} :
                 openTunnels' = IF r = "ok" THEN openTunnels \ {public_url}
                                ELSE openTunnels
            /\ pc' = "cn_token"
            /\ CnCall("loop")
            /\ UNCHANGED wdVars
       ELSE /\ pc' = "wd_list"
            /\ WdCall(public_url)
            /\ UNCHANGED <<openTunnels, cnCaller, cnVars>>
    /\ UNCHANGED <<oVars, wbVars, backend_ready, token, tunnel, established,
                   public_url, envVars>>

\* public_url as the while loop of main holds it after a reconnection:
\* the assignment `public_url = tunnel.public_url` is commented out
UrlAfterReconnect(old, new) == old

\* if not tunnel: break; else the next ngrok_watchdog(public_url)
WMainRetunnel ==
    /\ pc = "cn_ret"
    /\ cnCaller = "loop"
    /\ IF tunnel = None
       THEN /\ pc' = "w_done"
            /\ UNCHANGED <<public_url, wdVars>>
       ELSE /\ pc' = "wd_list"
            /\ public_url' = UrlAfterReconnect(public_url, tunnel)
            /\ WdCall(public_url')
    /\ CnCall("none")
    /\ UNCHANGED <<oVars, wbVars, backend_ready, token, tunnel, openTunnels,
                   established, envVars>>

WebuiNext ==
    \/ WbProbe \/ WbProbeBlocks \/ WbSleep \/ WbTimeout
    \/ CnToken \/ CnSetAuth \/ CnConnect \/ CnSleep \/ CnExhausted
    \/ WdList \/ WdPing \/ WdSleep \/ TunnelDrop
    \/ WMainBackend \/ WMainTunnel \/ WEnv1 \/ WCurl \/ WEnv2
    \/ WReconnect \/ WMainRetunnel

Next == OllamaNext \/ WebuiNext

Spec == Init /\ [][Next]_vars

\* the asyncio event loop keeps running the script's task while a step is
\* possible
LiveSpec == Spec /\ WF_vars(Next)
(***************************************************************************)
(* Properties.                                                             *)
(***************************************************************************)
WsPcs == {"ws_loop", "ws_sleep"}
WbPcs == {"wb_loop", "wb_sleep", "wb_blocked"}
CnPcs == {"cn_token", "cn_setauth", "cn_connect", "cn_sleep"}
WdPcs == {"wd_list", "wd_ping", "wd_sleep"}

\* C1: start_ollama spawns `ollama serve` only if the last is_port_free check
\* before the spawn reported the port free; if the check after the
\* remediation pass finds the port occupied, start_ollama returns False,
\* nothing is spawned and no readiness probe is issued.
C1_SpawnOnlyIfPortFree ==
    /\ (pc = "so_spawn" \/ spawned > 0) =>
          (checks # <<>> /\ checks[Len(checks)] = TRUE)
    /\ (Len(checks) = 2 /\ checks[2] = FALSE) =>
          /\ pc \in {"so_ret", "o_done"}
          /\ started = "False"
          /\ spawned = 0
          /\ wsProbes = 0

\* the port was occupied, a process was signalled, the port is still
\* occupied: start_ollama has returned False
C1_Witness ==
    /\ pc = "so_ret"
    /\ checks = <<FALSE, FALSE>>
    /\ kpCalls = 1
    /\ signalled # {}
    /\ started = "False"

\* C2 (as claimed): when kill_process_on_port has returned after the lookup
\* enumerated processes, os.kill(pid, SIGKILL) was called for every one of
\* them, also when one of the calls failed; the cooldown is waited only
\* after that.
C2_EveryPidSignalled ==
    /\ kpReturned => Range(pids) \subseteq tried
    /\ cooldowns > 0 => Range(pids) \subseteq tried

\* C3: wait_for_server returns True exactly when a probe is answered 200,
\* on that (K-th) probe, after K probes and K-1 sleeps of 1 s; exceptions
\* and other statuses before it do not end the polling.
C3_ReadyOnKthProbe ==
    /\ wsFirst200 > 0 =>
          /\ pc \notin WsPcs
          /\ started = "True"
          /\ wsFirst200 \in 1..DefaultTimeout
          /\ wsProbes = wsFirst200
          /\ wsSleeps = wsFirst200 - 1
    /\ started = "True" => wsFirst200 > 0
    /\ (spawned = 1 /\ wsFirst200 = 0 /\ wsProbes < DefaultTimeout) =>
          (pc \in WsPcs /\ started = "none")

\* the third probe is the first answered 200, after an exception and a
\* non-200 answer
C3_Witness ==
    /\ pc = "so_ret"
    /\ started = "True"
    /\ wsFirst200 = 3
    /\ wsSleeps = 2
    /\ wsSeen = {"503", "err"}

\* C4: if no probe is answered 200, wait_for_server returns False after
\* exactly timeout (30) probes; it never issues more.
C4_ExhaustsTimeout ==
    /\ wsProbes <= DefaultTimeout
    /\ (spawned = 1 /\ wsFirst200 = 0 /\ pc \notin WsPcs) =>
          (started = "False" /\ wsProbes = DefaultTimeout)

\* 30 probes, none answered 200: False
C4_Witness ==
    /\ pc = "so_ret"
    /\ spawned = 1
    /\ started = "False"
    /\ wsProbes = DefaultTimeout
    /\ wsSeen = {"503", "err"}

\* C5 (as claimed): wait_for_backend is a bounded wait: once called it
\* eventually returns whatever the endpoint does, it issues at most timeout
\* probes, and it returns False when no probe was answered 200.
C5_BoundedWait ==
    /\ [](wbProbes <= BackendTimeout)
    /\ []((pc = "wb_ret" /\ ~wbSaw200) => backend_ready = "False")
    /\ (pc = "wb_loop") ~> (pc = "wb_ret")

\* C6: with NGROK_AUTHTOKEN absent or empty, create_ngrok_tunnel makes no
\* connect attempt, does not sleep, and returns None at once.
C6_NoTokenNoAttempt ==
    token \in {"None", ""} =>
          /\ pc \notin {"cn_setauth", "cn_connect", "cn_sleep"}
          /\ cnAttempts = 0
          /\ cnSleeps = 0
          /\ ~cnAuthSet
          /\ established = 0
          /\ pc = "cn_ret" => tunnel = None

\* the token is the empty string and create_ngrok_tunnel has returned None
C6_Witness ==
    /\ pc = "cn_ret"
    /\ token = ""
    /\ tunnel = None
    /\ cnAttempts = 0

\* C7: create_ngrok_tunnel returns the tunnel of the first successful
\* connect and attempts nothing after it: success on attempt n means n
\* attempts and n-1 waits of retry_delay.
C7_ReturnsFirstSuccess ==
    cnFirstOk > 0 =>
          /\ pc = "cn_ret"
          /\ tunnel = cnFirstUrl
          /\ tunnel # None
          /\ cnFirstOk \in 1..max_retries
          /\ cnAttempts = cnFirstOk
          /\ cnSleeps = (cnFirstOk - 1) * retry_delay

\* four failures, then the fifth connect succeeds
C7_Witness ==
    /\ pc = "cn_ret"
    /\ cnFirstOk = max_retries
    /\ cnSleeps = (max_retries - 1) * retry_delay
    /\ tunnel \in URLS

\* C8: at most max_retries connect attempts per call; None is returned iff
\* the credential is missing or all max_retries attempts failed; a failed
\* attempt never ends the script with an exception.
C8_BoundedAttempts ==
    /\ cnAttempts <= max_retries
    /\ pc = "cn_ret" =>
          (tunnel = None <=>
              (token \in {"None", ""} \/ (cnAttempts = max_retries /\ cnFirstOk = 0)))
    /\ pc = "crashed" => cnAttempts = 0

\* five failed attempts: None
C8_Witness ==
    /\ pc = "cn_ret"
    /\ token = "tok"
    /\ cnAttempts = max_retries
    /\ cnFirstOk = 0
    /\ tunnel = None

\* C9: ngrok_watchdog returns False in the check cycle in which the URL is
\* missing from the tunnel list, the probe answers a status other than 200,
\* or either check raises; no sleep and no check follows the observation.
C9_FailsInSameCycle ==
    wdObserved # "none" =>
          /\ pc \notin WdPcs
          /\ wdResult = "False"
          /\ wdObsCycle = wdCycle
          /\ wdSleeps = (wdCycle - 1) * WatchdogInterval

\* the tunnel disappears from the list after a healthy first cycle and the
\* second cycle returns False
C9_Witness ==
    /\ pc = "wd_ret"
    /\ wdObserved = "missing"
    /\ wdCycle = 2
    /\ wdResult = "False"

\* C10: ngrok_watchdog has no success exit: while no check has observed a
\* failure it is still checking or sleeping (15 s per passed cycle), and
\* when it has returned, it returned False after observing a failure.
C10_NoSuccessExit ==
    /\ wdResult \in {"none", "False"}
    /\ (wdCycle >= 1 /\ wdObserved = "none") =>
          /\ pc \in WdPcs
          /\ wdResult = "none"
          /\ wdSleeps = (wdCycle - 1) * WatchdogInterval
    /\ pc = "wd_ret" => (wdResult = "False" /\ wdObserved # "none")

\* after a healthy cycle and its 15 s sleep the watchdog checks again
C10_Witness ==
    /\ pc = "wd_ping"
    /\ wdCycle = 2
    /\ wdSleeps = WatchdogInterval
    /\ wdObserved = "none"
    /\ wdResult = "none"
IsPrefix(s, t) == Len(s) <= Len(t) /\ SubSeq(t, 1, Len(s)) = s

\* the complete step sequences of ollama_setup.main in the claimed order:
\* cleanup, port check (with or without remediation), spawn, readiness
\* polling, and the commands after a successful polling only
OrderedRuns ==
    LET port == {<<"check", "check">>, <<"check", "remediate", "check">>}
        cmds == [i \in 1..NumCommands |-> "command"]
    IN UNION {{<<"cleanup">> \o p \o <<"spawn", "ready">> \o cmds,
               <<"cleanup">> \o p \o <<"spawn", "not_ready">>} : p \in port}

\* C11: the steps of ollama_setup.main happen in the order cleanup, port
\* check/remediation, spawn, readiness polling, commands; a command is run
\* only if the last port check found the port free and the polling
\* returned True.
C11_OrderedAndGated ==
    /\ \E run \in OrderedRuns : IsPrefix(osteps, run)
    /\ (pc = "rc_exec" \/ cmdLog # <<>>) =>
          /\ checks # <<>> /\ checks[Len(checks)] = TRUE
          /\ spawned = 1
          /\ started = "True"
          /\ wsFirst200 > 0

\* the whole sequence with a remediation pass and all five commands
C11_Witness ==
    /\ pc = "o_done"
    /\ osteps = <<"cleanup", "check", "remediate", "check", "spawn", "ready",
                  "command", "command", "command", "command", "command">>
    /\ cmdLog = <<1, 2, 3, 4, 5>>

\* C12 (as claimed): once run_ollama_commands was called and the script has
\* ended, every command of the list has been started, once and in list
\* order, whatever the commands before it did (non-zero exit or failure to
\* start).
C12_EveryCommandRuns ==
    /\ \A i \in 1..Len(cmdLog) : cmdLog[i] = i
    /\ (started = "True" /\ pc \in {"o_done", "crashed"}) =>
          cmdLog = [i \in 1..NumCommands |-> i]
\* the lines of a .env content that are entries of the key NGROK_URL
KeyLines(f) == SelectSeq(ReadLines(f), StartsWithKey)

\* the other lines of a .env content
OtherLines(f) == DropKey(ReadLines(f))

\* C13 (as claimed): once main has persisted public_url, the .env holds
\* exactly one line of the key NGROK_URL, with that value, and its other
\* lines are those of the initial file, unmodified and in their order,
\* whatever the initial file was.
C13_PersistKeepsOtherLines ==
    (envExists /\ public_url # None /\ pc # "w_env1") =>
          /\ KeyLines(envFile) = << <<"NGROK_URL=", public_url, "\n">> >>
          /\ OtherLines(envFile) = OtherLines(envOrig)
\* a .env content whose last line is terminated by a newline
Terminated(f) == f = <<>> \/ f[Len(f)] = "\n"

\* C14 (as claimed): whenever the watchdog is running, the NGROK_URL entry
\* of the .env holds the public URL of the most recently established tunnel
\* (stated for a .env whose last line is terminated).
C14_StoredUrlIsCurrent ==
    (pc \in WdPcs /\ Terminated(envOrig)) =>
          KeyLines(envFile) = << <<"NGROK_URL=", tunnel, "\n">> >>

\* C15 (as claimed): at most one tunnel created by the supervisor is open at
\* any time.
C15_AtMostOneTunnel == Cardinality(openTunnels) <= 1

\* positions at which the script has ended
EndPcs == {"o_done", "w_done", "crashed"}

\* C16 (as claimed): once the watchdog loop was entered, the script ends only
\* from a re-establishment that returned None after max_retries failed
\* attempts, and a successful re-establishment is followed by the next
\* watchdog call.
C16_LoopEndsOnlyOnExhaustion ==
    [][ /\ (wdCycle >= 1 /\ pc \notin EndPcs /\ pc' \in EndPcs) =>
              /\ pc = "cn_ret" /\ cnCaller = "loop"
              /\ tunnel = None
              /\ cnAttempts = max_retries /\ cnFirstOk = 0
        /\ (pc = "cn_ret" /\ cnCaller = "loop" /\ tunnel # None /\ pc' # pc) =>
              pc' = "wd_list"
      ]_vars

\* positions of the external calls C17 lists: service-manager query
\* (systemctl), process kill (pkill, os.kill), port lookup (lsof), HTTP probe,
\* tunnel connect and disconnect, provider API query
ListedCallPcs ==
    {"se_isactive", "se_stop", "se_disable", "se_pkill", "kp_lsof", "kp_kill",
     "ws_loop", "wb_loop", "cn_connect", "wd_list", "wd_ping", "wd_ret"}

\* C17: no failure of a listed external call ends the script with an
\* exception: stop_existing_ollama, kill_process_on_port, wait_for_server,
\* wait_for_backend, create_ngrok_tunnel and ngrok_watchdog go on or return.
C17_ListedFailuresAreHandled ==
    [][(pc \in ListedCallPcs) => (pc' # "crashed")]_vars

\* os.kill raised for every listed process and kill_process_on_port has
\* returned to start_ollama
C17_Witness ==
    /\ pc = "so_check2"
    /\ kpReturned
    /\ tried # {}
    /\ signalled = {}

\* C18 (as claimed): every ngrok_watchdog invocation is given the public URL
\* of the most recently established tunnel, so a failure "missing from the
\* list" is reported only when that tunnel is not listed.
C18_WatchdogGetsCurrentUrl ==
    /\ pc \in WdPcs => wdUrl = tunnel
    /\ (pc = "wd_ret" /\ wdObserved = "missing") => tunnel \notin openTunnels

\* C19: unless wait_for_backend returned True no tunnel connect is attempted
\* and the .env is left as it was; the .env is also left as it was when the
\* first create_ngrok_tunnel returned None.
C19_NothingBeforeBackendReady ==
    /\ backend_ready # "True" =>
          /\ pc \notin CnPcs \cup {"cn_ret"}
          /\ cnAttempts = 0
          /\ ~cnAuthSet
          /\ established = 0
          /\ openTunnels = {}
          /\ envFile = envOrig
    /\ public_url = None => envFile = envOrig
    /\ (pc = "w_done" /\ wdCycle = 0) => envFile = envOrig

\* the backend never answered 200: main has returned, the .env is untouched
C19_Witness ==
    /\ pc = "w_done"
    /\ backend_ready = "False"
    /\ token = "tok"
    /\ envOrig # <<>>
    /\ envFile = envOrig

\* C20: start_ollama calls kill_process_on_port at most once, and only when
\* the first check found the port occupied; after a first check that found
\* it free, the port guard signals no process.
C20_SingleRemediationPass ==
    /\ kpCalls <= 1
    /\ kpCalls = 1 => (checks # <<>> /\ checks[1] = FALSE)
    /\ (checks # <<>> /\ checks[1] = TRUE) =>
          /\ kpCalls = 0
          /\ pids = <<>>
          /\ tried = {}
          /\ signalled = {}
          /\ cooldowns = 0

\* one remediation pass freed the port and ollama was spawned
C20_Witness ==
    /\ checks = <<FALSE, TRUE>>
    /\ kpCalls = 1
    /\ signalled # {}
    /\ cooldowns = KillCooldown
    /\ spawned = 1
====
